---- MODULE Spec2Model ----
(***************************************************************************)
(* The CAN tracer page of OpenVehicleDiag (app_rust/src/pages/             *)
(* can_tracer.rs): the state of CanTracerPage and its per-frame handler    *)
(* make_ui, which parses the operator's text fields, transmits a custom    *)
(* frame on an interval, polls the CAN channel, filters and folds the      *)
(* frames into can_map and act_map, and handles connect and disconnect.    *)
(*                                                                         *)
(* Text is a sequence of one-character strings, so that parsing and        *)
(* formatting are computed character by character.  A CAN frame is a       *)
(* record [addr, data].  last_tx_time is kept as its age in milliseconds   *)
(* (the value of last_tx_time.elapsed().as_millis()), the only thing the   *)
(* code reads from it.  f32 counts are whole numbers below 2^24 and are    *)
(* kept as integers.                                                       *)
(***************************************************************************)
EXTENDS Integers, Sequences, FiniteSets, TLC

\* ------------------------------------------------------------------ bounds

\* make_ui calls in one run
MaxTicks == 4
\* text edits, clicks on a widget of the page (Connect and Disconnect apart)
\* and read_packets results other than Ok(empty) in one run
MaxEvents == 2
\* longest sequence of arbitrary frames one read_packets call returns
MaxInbound == 2
\* length of the burst of frames one read_packets call may return
BurstLen == 11

\* ------------------------------------------------------- program constants

\* act_map: [f32; 100]
ActCap == 100
\* max_y: 10.0 in CanTracerPage::new
MaxYInit == 10
\* tx_interval: 50 in CanTracerPage::new
TxIntervalInit == 50
\* selected_baud: 500_000 in CanTracerPage::new
BaudInit == 500000
\* a u32 is kept as its two 16-bit halves << high, low >>
Half == 65536
\* u8::MAX
U8Max == 255
\* the payload limit of line 161
MaxPayload == 8

CAN_BAUD_RATES ==
    << 5000, 10000, 20000, 31250, 33333, 40000, 50000, 80000, 83333,
       100000, 125000, 200000, 250000, 500000, 1000000 >>

\* ------------------------------------------------------------- arithmetic

\* the u32 of value hi * 2^16 + lo
U32(hi, lo) == << hi, lo >>
U32Max == U32(Half - 1, Half - 1)
U8MaxU32 == U32(0, U8Max)
\* Err of a parse
ParseErr == << -1, -1 >>

RECURSIVE BitAnd16(_, _)
BitAnd16(a, b) ==
    IF a = 0 \/ b = 0 THEN 0
    ELSE (a % 2) * (b % 2) + 2 * BitAnd16(a \div 2, b \div 2)

\* a & b on u32
BitAnd(a, b) == U32(BitAnd16(a[1], b[1]), BitAnd16(a[2], b[2]))

\* (ms as u128) > (x as u128), for a millisecond count below 2^31
MsGreater(ms, x) == x[1] < Half \div 2 /\ ms > x[1] * Half + x[2]

\* ms >= x, for the same
MsAtLeast(ms, x) == x[1] < Half \div 2 /\ ms >= x[1] * Half + x[2]

\* ------------------------------------------------------------------- text

\* char::to_digit(radix) for radix <= 16; -1 stands for None
DigitVal(c, radix) ==
    LET v == CASE c = "0" -> 0 [] c = "1" -> 1 [] c = "2" -> 2 [] c = "3" -> 3
               [] c = "4" -> 4 [] c = "5" -> 5 [] c = "6" -> 6 [] c = "7" -> 7
               [] c = "8" -> 8 [] c = "9" -> 9
               [] c = "a" \/ c = "A" -> 10 [] c = "b" \/ c = "B" -> 11
               [] c = "c" \/ c = "C" -> 12 [] c = "d" \/ c = "D" -> 13
               [] c = "e" \/ c = "E" -> 14 [] c = "f" \/ c = "F" -> 15
               [] OTHER -> -1
    IN  IF v < radix THEN v ELSE -1

RECURSIVE ParseDigits(_, _, _, _)
\* the digit loop of from_str_radix: acc * radix + digit, with Err on an
\* invalid digit or when the value passes max
ParseDigits(s, radix, max, acc) ==
    IF s = <<>> THEN acc
    ELSE LET d == DigitVal(Head(s), radix)
             low == acc[2] * radix + d
             nxt == U32(acc[1] * radix + low \div Half, low % Half)
         IN  IF d < 0 THEN ParseErr
             ELSE IF nxt[1] > max[1] \/ (nxt[1] = max[1] /\ nxt[2] > max[2])
                  THEN ParseErr
             ELSE ParseDigits(Tail(s), radix, max, nxt)

\* uN::from_str_radix(s, radix) for an unsigned type with maximum max.
\* A leading "+" is accepted, a lone sign is not.
FromStrRadix(s, radix, max) ==
    IF s = <<>> THEN ParseErr
    ELSE IF Len(s) = 1 /\ (Head(s) = "+" \/ Head(s) = "-") THEN ParseErr
    ELSE ParseDigits(IF Head(s) = "+" THEN Tail(s) ELSE s, radix, max, U32(0, 0))

RECURSIVE SplitFrom(_, _, _)
\* str::split(sep): the pieces between separators, empty pieces included
SplitFrom(s, sep, cur) ==
    IF s = <<>> THEN << cur >>
    ELSE IF Head(s) = sep THEN << cur >> \o SplitFrom(Tail(s), sep, <<>>)
    ELSE SplitFrom(Tail(s), sep, Append(cur, Head(s)))

Split(s, sep) == SplitFrom(s, sep, <<>>)

HexChar(d) ==
    << "0", "1", "2", "3", "4", "5", "6", "7", "8", "9",
       "A", "B", "C", "D", "E", "F" >>[d + 1]

RECURSIVE UpperHex(_)
\* the digits of format!("{:X}", n)
UpperHex(n) ==
    IF n < 16 THEN << HexChar(n) >>
    ELSE Append(UpperHex(n \div 16), HexChar(n % 16))

RECURSIVE PadLeft(_, _)
PadLeft(s, width) == IF Len(s) >= width THEN s ELSE PadLeft(<< "0" >> \o s, width)

\* format!("{:04X}", n) of a u32
Format04X(n) ==
    IF n[1] = 0 THEN PadLeft(UpperHex(n[2]), 4)
    ELSE UpperHex(n[1]) \o PadLeft(UpperHex(n[2]), 4)

RECURSIVE Bits(_, _)
\* the low `width` bits of b, most significant first, as text
Bits(b, width) ==
    IF width = 0 THEN ""
    ELSE Bits(b \div 2, width - 1) \o (IF b % 2 = 1 THEN "1" ELSE "0")

RECURSIVE BinStr(_)
\* write!(s, "{:08b} ", b) for every byte
BinStr(bytes) ==
    IF bytes = <<>> THEN ""
    ELSE Bits(Head(bytes), 8) \o " " \o BinStr(Tail(bytes))

\* ----------------------------------------------------------------- frames

\* CanFrame::new(id, data, false)
CanFrame(id, data) == [addr |-> id, data |-> data]

\* the test with the filter left out of the comparison
PassesAnyMasked(addr, m, f) == BitAnd(addr, m) = BitAnd(f, m)

\* the test of lines 201 and 223
Passes(addr, m, f) == BitAnd(addr, m) = f

\* v.retain(|f| (f.get_address() & self.mask) == self.filt)
Retain(v, m, f) == SelectSeq(v, LAMBDA fr : Passes(fr.addr, m, f))

\* an insert that keeps the entry it should replace
MapInsertKeepOld(map, fr) == map \cup { fr }

\* HashMap::insert of can_map, kept as the set of its values: the entry of
\* the same key, if any, is replaced
MapInsert(map, fr) == { e \in map : e.addr # fr.addr } \cup { fr }

RECURSIVE InsertAll(_, _)
\* for frame in frames { self.can_map.insert(frame.get_address(), frame); }
InsertAll(map, frames) ==
    IF frames = <<>> THEN map
    ELSE InsertAll(MapInsert(map, Head(frames)), Tail(frames))

\* let num = frames.len() as f32
NumOf(frames) == Len(frames)

\* max_y following the last count instead of the largest
NewMaxYLast(my, num) == num

\* if num > self.max_y { self.max_y = num; }
NewMaxY(my, num) == IF num > my THEN num ELSE my

\* if self.events_draw < 100 { self.events_draw += 1; }
NewEventsDraw(n) == IF n < ActCap THEN n + 1 ELSE n

\* the store without the rotation
PushFrontNoRotate(act, num) == [act EXCEPT ![1] = num]

\* self.act_map.rotate_right(1); self.act_map[0] = num;
PushFront(act, num) == << num >> \o SubSeq(act, 1, Len(act) - 1)

\* &self.act_map[0..self.events_draw], the slice handed to the plot
Plotted(act, n) == SubSeq(act, 1, n)

\* the rows of lines 222-223: the entries of can_map that pass the test
Rows(map, m, f) == { e \in map : Passes(e.addr, m, f) }

\* ---------------------------------------------------------- text literals

T_0000 == << "0", "0", "0", "0" >>
T_FFFF == << "F", "F", "F", "F" >>
T_0001 == << "0", "0", "0", "1" >>
T_50 == << "5", "0" >>
T_Data8 ==
    << "0", "1", " ", "0", "2", " ", "0", "3", " ", "0", "4", " ",
       "0", "5", " ", "0", "6", " ", "0", "7", " ", "0", "8" >>

\* ------------------------------------------------------------------ inputs

\* texts the operator may leave in each field in one frame
MaskTexts == { << "1" >>, << "G" >> }
FiltTexts == { << "0", "2", "0", "1" >>, <<>> }
IdTexts == { << "0", "2", "0", "1" >>, << "x" >> }
DataTexts ==
    { <<>>,
      << "0", "A", " ", "0", "B" >>,
      << "1", " ", "2", " ", "3", " ", "4", " ", "5", " ", "6", " ", "7",
         " ", "8", " ", "9" >> }
IvalTexts == { << "1" >>, << "1", "s" >> }

\* one keyboard event per frame: a text field has the focus, or none has
KeyEvents ==
    { << "none", <<>> >> }
    \cup ({ "mask" } \X MaskTexts) \cup ({ "filt" } \X FiltTexts)
    \cup ({ "id" } \X IdTexts) \cup ({ "data" } \X DataTexts)
    \cup ({ "ival" } \X IvalTexts)

\* frames the bus may deliver
BusFrames == { CanFrame(U32(0, 513), << 1, 2 >>), CanFrame(U32(1, 512), << 3, 4 >>) }

RECURSIVE SeqsUpTo(_, _)
SeqsUpTo(S, n) ==
    IF n = 0 THEN { <<>> }
    ELSE LET shorter == SeqsUpTo(S, n - 1)
         IN  shorter \cup { Append(s, x) : s \in shorter, x \in S }

\* a burst on one address, every frame with a payload of its own
Burst == [i \in 1..BurstLen |-> CanFrame(U32(0, 513), << i >>)]

\* what Ok(v) of read_packets may hold: any short sequence, or the burst
Inbound == SeqsUpTo(BusFrames, MaxInbound) \cup { Burst }

\* what read_packets may return: << TRUE, v >> for Ok(v), << FALSE, <<>> >> for Err
Reads == { << FALSE, <<>> >> } \cup ({ TRUE } \X Inbound)

\* milliseconds between the clock readings of two successive make_ui calls:
\* the default transmit interval, so that the elapsed time meets it exactly
TickMs == { 50 }

\* what the inputs of one make_ui call take from the run's MaxEvents
KeyCost(key) == IF key[1] = "none" THEN 0 ELSE 1
ClickCost(kind) == IF kind = "none" THEN 0 ELSE 1
ReadCost(rx) == IF rx = << TRUE, <<>> >> THEN 0 ELSE 1

\* --------------------------------------------------------------- the state

VARIABLES
    channel,          \* channel.is_some()
    selected_baud,
    error_maybe,      \* "None" or the message
    can_map,
    act_map,
    events_draw,
    mask,
    mask_str,
    filt,
    filt_str,
    max_y,
    sending_frame,
    last_tx_age,      \* last_tx_time.elapsed().as_millis()
    tx_interval,
    tx_interval_str,
    tx_bin_str,
    tx_id_str,
    tx_data_str,
    tx_can_data,      \* << id, bytes >>
    ticks,            \* make_ui calls so far
    events,           \* input events so far, see MaxEvents
    branch,           \* the branch the last make_ui call took
    calls,            \* the channel calls of the last make_ui call, in order
    elapsed,          \* last_tx_time.elapsed() as read by the last connected call
    shown,            \* the rows the last make_ui call put on screen
    input             \* what the operator did in the last make_ui call

vars ==
    << channel, selected_baud, error_maybe, can_map, act_map, events_draw,
       mask, mask_str, filt, filt_str, max_y, sending_frame, last_tx_age,
       tx_interval, tx_interval_str, tx_bin_str, tx_id_str, tx_data_str,
       tx_can_data, ticks, events, branch, calls, elapsed, shown, input >>

\* what the operator did in one make_ui call: the keyboard event, the kind of
\* click, and the address of the row clicked, if a row was
Input(key, kind, a) == [key |-> key, click |-> kind, row |-> a]
NoInput == Input(<< "none", <<>> >>, "none", U32(0, 0))

\* CanTracerPage::new
Init ==
    /\ channel = FALSE
    /\ selected_baud = BaudInit
    /\ error_maybe = "None"
    /\ can_map = {}
    /\ act_map = [i \in 1..ActCap |-> 0]
    /\ events_draw = 0
    /\ mask = U32(0, 0)
    /\ mask_str = T_0000
    /\ filt = U32(0, 0)
    /\ filt_str = T_0000
    /\ max_y = MaxYInit
    /\ sending_frame = FALSE
    /\ last_tx_age = 0
    /\ tx_interval = U32(0, TxIntervalInit)
    /\ tx_interval_str = T_50
    /\ tx_bin_str = ""
    /\ tx_id_str = T_0001
    /\ tx_data_str = T_Data8
    /\ tx_can_data = << U32(0, 1), << 0, 0, 0, 0, 0, 0, 0, 0 >> >>
    /\ ticks = 0
    /\ events = 0
    /\ branch = "new"
    /\ calls = <<>>
    /\ elapsed = 0
    /\ shown = {}
    /\ input = NoInput

\* ------------------------------------------- make_ui, the connected branch

\* the filter field with the "Reset CAN filter" button left out
FilterStrInNoReset(field, old, key, kind) == IF key[1] = field THEN key[2] ELSE old

\* lines 93-109: the text a filter field holds after this frame's edit; the
\* "Reset CAN filter" button overrides it
FilterStrIn(field, old, key, kind) ==
    IF kind = "reset" THEN T_0000
    ELSE IF key[1] = field THEN key[2] ELSE old

\* lines 122-136, 173: the text a transmit field holds after this frame's edit
TxStrIn(field, old, key) == IF key[1] = field THEN key[2] ELSE old

\* a text that does not parse setting the field to zero
ParseOrZero(s, radix, max, old) ==
    LET parse == FromStrRadix(s, radix, max)
    IN  IF s # <<>> /\ parse # ParseErr THEN parse ELSE U32(0, 0)

\* if !s.is_empty() { if let Ok(parse) = uN::from_str_radix(&s, radix) { field = parse; } }
ParseOrKeep(s, radix, max, old) ==
    LET parse == FromStrRadix(s, radix, max)
    IN  IF s # <<>> /\ parse # ParseErr THEN parse ELSE old

RECURSIVE ParseBytes(_, _)
\* lines 150-158: every piece must parse as a u8, else the result is empty
ParseBytes(pieces, acc) ==
    IF pieces = <<>> THEN acc
    ELSE LET b == FromStrRadix(Head(pieces), 16, U8MaxU32)
         IN  IF b # ParseErr THEN ParseBytes(Tail(pieces), Append(acc, b[2]))
             ELSE <<>>

BytesMaybe(str) == ParseBytes(Split(str, " "), <<>>)

\* the payload kept without the length test of line 161
AcceptDataAnyLen(bytes, old) == IF bytes = <<>> THEN old ELSE bytes

\* lines 159-164: the payload kept after this frame
AcceptData(bytes, old) ==
    IF bytes = <<>> THEN old
    ELSE IF Len(bytes) > MaxPayload THEN old
    ELSE bytes

\* lines 159-171: the label under the transmit fields
TxBinStr(bytes) ==
    IF bytes = <<>> THEN "INVALID DATA"
    ELSE IF Len(bytes) > MaxPayload THEN "DATA TOO BIG (Max 8 bytes)"
    ELSE BinStr(bytes)

\* line 174: the "Send frame" checkbox
Checkbox(old, kind) == IF kind = "send" THEN ~old ELSE old

\* lines 93-179: the fields after the widgets were read and the texts parsed,
\* for this frame's keyboard event and kind of click
Fields(key, kind) ==
    LET m_str == FilterStrIn("mask", mask_str, key, kind)
        f_str == FilterStrIn("filt", filt_str, key, kind)
        id_str == TxStrIn("id", tx_id_str, key)
        data_str == TxStrIn("data", tx_data_str, key)
        ival_str == TxStrIn("ival", tx_interval_str, key)
        bytes == BytesMaybe(data_str)
    IN  [mask_str |-> m_str,
         filt_str |-> f_str,
         mask |-> ParseOrKeep(m_str, 16, U32Max, mask),
         filt |-> ParseOrKeep(f_str, 16, U32Max, filt),
         tx_id_str |-> id_str,
         tx_data_str |-> data_str,
         tx_id |-> ParseOrKeep(id_str, 16, U32Max, tx_can_data[1]),
         tx_data |-> AcceptData(bytes, tx_can_data[2]),
         tx_bin_str |-> TxBinStr(bytes),
         tx_interval_str |-> ival_str,
         sending_frame |-> Checkbox(sending_frame, kind),
         tx_interval |-> ParseOrKeep(ival_str, 10, U32Max, tx_interval)]

\* the transmit step running from the interval on, not only past it
TxDueAtInterval(sending, ms, interval) == sending /\ MsAtLeast(ms, interval)

\* lines 181-182: whether the transmit step runs
TxDue(sending, ms, interval) == sending /\ MsGreater(ms, interval)

\* lines 185-189: the frames kept from the write_packets call
SentFrames(fr, ok) == IF ok THEN << fr >> ELSE <<>>

\* last_tx_time never set again
AgeAfterKept(due, ms) == ms

\* line 190: last_tx_time = Instant::now() whenever the transmit step ran
AgeAfter(due, ms) == IF due THEN 0 ELSE ms

\* the transmit step putting the frame it wrote to the test of line 201
TransmitFiltered(p, ms, wok) ==
    LET due == TxDue(p.sending_frame, ms, p.tx_interval)
        fr == CanFrame(p.tx_id, p.tx_data)
    IN  [due |-> due,
         frames |-> IF due THEN Retain(SentFrames(fr, wok), p.mask, p.filt) ELSE <<>>,
         calls |-> IF due
                   THEN << [op |-> "write_packets", ok |-> wok, arg |-> << fr >>] >>
                   ELSE <<>>,
         age |-> AgeAfter(due, ms)]

\* lines 180-192: the transmit step, for fields p read ms after last_tx_time
\* and a write that returns Ok iff wok
Transmit(p, ms, wok) ==
    LET due == TxDue(p.sending_frame, ms, p.tx_interval)
        fr == CanFrame(p.tx_id, p.tx_data)
    IN  [due |-> due,
         frames |-> IF due THEN SentFrames(fr, wok) ELSE <<>>,
         calls |-> IF due
                   THEN << [op |-> "write_packets", ok |-> wok, arg |-> << fr >>] >>
                   ELSE <<>>,
         age |-> AgeAfter(due, ms)]

\* the frames of read_packets kept without the retain of line 201
ReceivedUnfiltered(rx, m, f) == rx[2]

\* what write_packets may return, Ok (TRUE) or Err, when it is called at all
WriteResults(p, ms) ==
    IF TxDue(p.sending_frame, ms, p.tx_interval) THEN BOOLEAN ELSE { TRUE }

\* an Err of read_packets counted as a frame
ReceivedErrCounted(rx, m, f) ==
    IF rx[1] THEN Retain(rx[2], m, f) ELSE << CanFrame(f, <<>>) >>

\* lines 199-208: the frames kept from read_packets returning rx
Received(rx, m, f) == IF rx[1] THEN Retain(rx[2], m, f) ELSE <<>>

\* lines 225-226: a click on the row of address a
RowMaskStr(a) == T_FFFF
RowFiltStr(a) == Format04X(a)

\* the calls after the transmit step held the order the code forbids
PollCallsReadFirst(sent, rx) ==
    << [op |-> "read_packets", ok |-> rx[1], arg |-> rx[2]] >> \o sent

\* lines 180-208: the channel calls of a polling make_ui call, in order: those
\* of the transmit step, then read_packets returning rx
PollCalls(sent, rx) ==
    sent \o << [op |-> "read_packets", ok |-> rx[1], arg |-> rx[2]] >>

\* the kinds of click a connected frame may see apart from Disconnect: none,
\* the reset button, the "Send frame" checkbox, a row on screen
PollClicks == { "none", "reset", "send", "row" }

\* make_ui with a channel and no click on Disconnect (lines 93-193, 198-247)
Poll ==
    /\ channel
    /\ ticks < MaxTicks
    /\ \E key \in KeyEvents, rx \in Reads, dt \in TickMs, kind \in PollClicks :
        /\ events + KeyCost(key) + ReadCost(rx) + ClickCost(kind) <= MaxEvents
        /\ \E p \in { Fields(key, kind) } :
           \E wok \in WriteResults(p, last_tx_age + dt) :
           \E tx \in { Transmit(p, last_tx_age + dt, wok) } :
           \E frames \in { tx.frames \o Received(rx, p.mask, p.filt) } :
           \E map \in { InsertAll(can_map, frames) } :
           \E rows \in { Rows(map, p.mask, p.filt) } :
            /\ \E a \in IF kind = "row" THEN { e.addr : e \in rows } ELSE { U32(0, 0) } :
                /\ mask_str' = IF kind = "row" THEN RowMaskStr(a) ELSE p.mask_str
                /\ filt_str' = IF kind = "row" THEN RowFiltStr(a) ELSE p.filt_str
                /\ input' = Input(key, kind, a)
            /\ mask' = p.mask
            /\ filt' = p.filt
            /\ tx_id_str' = p.tx_id_str
            /\ tx_data_str' = p.tx_data_str
            /\ tx_can_data' = << p.tx_id, p.tx_data >>
            /\ tx_bin_str' = p.tx_bin_str
            /\ tx_interval_str' = p.tx_interval_str
            /\ sending_frame' = p.sending_frame
            /\ tx_interval' = p.tx_interval
            /\ elapsed' = last_tx_age + dt
            /\ last_tx_age' = tx.age
            /\ calls' = PollCalls(tx.calls, rx)
            /\ can_map' = map
            /\ max_y' = NewMaxY(max_y, NumOf(frames))
            /\ events_draw' = NewEventsDraw(events_draw)
            /\ act_map' = PushFront(act_map, NumOf(frames))
            /\ shown' = rows
            /\ branch' = "poll"
            /\ ticks' = ticks + 1
            /\ events' = events + KeyCost(key) + ReadCost(rx) + ClickCost(kind)
            /\ UNCHANGED << channel, selected_baud, error_maybe >>

\* the map left as it is
ClearedKept(map) == map

\* self.can_map.clear()
Cleared(map) == {}

\* make_ui with a channel and a click on Disconnect (lines 93-197)
Disconnect ==
    /\ channel
    /\ ticks < MaxTicks
    /\ \E key \in KeyEvents, dt \in TickMs :
        /\ events + KeyCost(key) <= MaxEvents
        /\ \E p \in { Fields(key, "disconnect") } :
           \E wok \in WriteResults(p, last_tx_age + dt) :
           \E tx \in { Transmit(p, last_tx_age + dt, wok) } :
            /\ mask_str' = p.mask_str
            /\ filt_str' = p.filt_str
            /\ mask' = p.mask
            /\ filt' = p.filt
            /\ tx_id_str' = p.tx_id_str
            /\ tx_data_str' = p.tx_data_str
            /\ tx_can_data' = << p.tx_id, p.tx_data >>
            /\ tx_bin_str' = p.tx_bin_str
            /\ tx_interval_str' = p.tx_interval_str
            /\ sending_frame' = p.sending_frame
            /\ tx_interval' = p.tx_interval
            /\ elapsed' = last_tx_age + dt
            /\ last_tx_age' = tx.age
            /\ calls' = tx.calls
            /\ channel' = FALSE
            /\ can_map' = Cleared(can_map)
            /\ shown' = {}
            /\ branch' = "disconnect"
            /\ input' = Input(key, "disconnect", U32(0, 0))
            /\ ticks' = ticks + 1
            /\ events' = events + KeyCost(key)
            /\ UNCHANGED << selected_baud, error_maybe, max_y, events_draw, act_map >>

\* ---------------------------------------- make_ui, the disconnected branch

\* the rates the operator picks in the combo box, as places in CAN_BAUD_RATES;
\* 0 stands for no pick
BaudPicks == { 0, 1, 15 }

\* the pick storing the place of the rate in the list, not the rate
PickedBaudIndex(pick) == IF pick = 0 THEN selected_baud ELSE pick

\* cb_ui.selectable_value(&mut self.selected_baud, *x, x)
PickedBaud(pick) == IF pick = 0 THEN selected_baud ELSE CAN_BAUD_RATES[pick]

\* what open_can_channel may return: Ok, or Err at one of its three calls
OpenOutcomes == { "ok", "create_can_channel", "set_can_cfg", "open" }

\* lines 82-87: the calls made on the channel before the outcome
OpenCalls(outcome, baud) ==
    LET cfg == [op |-> "set_can_cfg", ok |-> outcome # "set_can_cfg", arg |-> baud]
        opn == [op |-> "open", ok |-> outcome # "open", arg |-> baud]
    IN  IF outcome = "create_can_channel" THEN <<>>
        ELSE IF outcome = "set_can_cfg" THEN << cfg >>
        ELSE << cfg, opn >>

\* make_ui without a channel and no click on Connect (lines 250-257, 267-269)
Idle ==
    /\ ~channel
    /\ ticks < MaxTicks
    /\ \E dt \in TickMs, pick \in BaudPicks :
        /\ events + (IF pick = 0 THEN 0 ELSE 1) <= MaxEvents
        /\ last_tx_age' = last_tx_age + dt
        /\ selected_baud' = PickedBaud(pick)
        /\ calls' = <<>>
        /\ shown' = {}
        /\ branch' = "idle"
        /\ input' = Input(<< "none", <<>> >>, IF pick = 0 THEN "none" ELSE "baud", U32(0, 0))
        /\ ticks' = ticks + 1
        /\ events' = events + (IF pick = 0 THEN 0 ELSE 1)
        /\ UNCHANGED << channel, error_maybe, can_map, act_map, events_draw, mask,
                        mask_str, filt, filt_str, max_y, sending_frame, tx_interval,
                        tx_interval_str, tx_bin_str, tx_id_str, tx_data_str,
                        tx_can_data, elapsed >>

\* the click on Connect leaving no message behind
ConnectErrorNone(outcome) == "None"

\* lines 259-265: error_maybe after the click on Connect
ConnectError(outcome) ==
    IF outcome = "ok" THEN "None"
    ELSE "Could not open CAN channel!: " \o outcome

\* make_ui without a channel and a click on Connect (lines 250-269)
Connect ==
    /\ ~channel
    /\ ticks < MaxTicks
    /\ \E dt \in TickMs, outcome \in OpenOutcomes :
        /\ last_tx_age' = last_tx_age + dt
        /\ channel' = (outcome = "ok")
        /\ error_maybe' = ConnectError(outcome)
        /\ calls' = OpenCalls(outcome, selected_baud)
        /\ shown' = {}
        /\ branch' = IF outcome = "ok" THEN "connect" ELSE "connect_failed"
        /\ input' = Input(<< "none", <<>> >>, "connect", U32(0, 0))
        /\ ticks' = ticks + 1
        /\ UNCHANGED << selected_baud, can_map, act_map, events_draw, mask,
                        mask_str, filt, filt_str, max_y, sending_frame, tx_interval,
                        tx_interval_str, tx_bin_str, tx_id_str, tx_data_str,
                        tx_can_data, elapsed, events >>

Next == Poll \/ Disconnect \/ Idle \/ Connect

Spec == Init /\ [][Next]_vars

\* ------------------------------------------------- a session already aged

\* the one length of frame the runs use
FrameMs == CHOOSE d \in TickMs : TRUE

\* polls behind the page when an aged run starts
AgedPolls == { ActCap - 1, ActCap }

\* The page after Connect, one poll that received `first` and k - 1 polls that
\* received nothing, with no input from the operator: the count of the first
\* poll has moved to place k of act_map.
Aged(k, first) ==
        /\ channel = TRUE
        /\ selected_baud = BaudInit
        /\ error_maybe = "None"
        /\ can_map = InsertAll({}, first)
        /\ act_map = [i \in 1..ActCap |-> IF i = k THEN NumOf(first) ELSE 0]
        /\ events_draw = k
        /\ mask = U32(0, 0)
        /\ mask_str = T_0000
        /\ filt = U32(0, 0)
        /\ filt_str = T_0000
        /\ max_y = NewMaxY(MaxYInit, NumOf(first))
        /\ sending_frame = FALSE
        /\ last_tx_age = (k + 1) * FrameMs
        /\ tx_interval = U32(0, TxIntervalInit)
        /\ tx_interval_str = T_50
        /\ tx_bin_str = TxBinStr(BytesMaybe(T_Data8))
        /\ tx_id_str = T_0001
        /\ tx_data_str = T_Data8
        /\ tx_can_data = << U32(0, 1), BytesMaybe(T_Data8) >>
        /\ branch = "poll"
        /\ calls = << [op |-> "read_packets", ok |-> TRUE, arg |-> <<>>] >>
        /\ elapsed = (k + 1) * FrameMs
        /\ shown = InsertAll({}, first)
        /\ input = NoInput

\* a run that starts from such a page, the first poll having received the burst
InitAged ==
    /\ \E k \in AgedPolls : Aged(k, Burst)
    /\ ticks = 0
    /\ events = 0

SpecAged == InitAged /\ [][Next]_vars

\* ------------------------------------------------------------- properties

\* the step is a make_ui call that polled the channel
PollStep == ticks' = ticks + 1 /\ branch' = "poll"

\* the calls of kind op among cs
CallsOf(cs, op) == SelectSeq(cs, LAMBDA c : c.op = op)

\* the frames read_packets returned in the last call of make_ui
ReadFrames(cs) ==
    IF CallsOf(cs, "read_packets") = <<>> THEN <<>>
    ELSE CallsOf(cs, "read_packets")[1].arg

\* the frames write_packets accepted in the last call of make_ui
WrittenOk(cs) ==
    { cs[i].arg[1] : i \in { j \in DOMAIN cs : cs[j].op = "write_packets" /\ cs[j].ok } }

\* the places of v whose frame passes the test under m and f
PassingAt(v, m, f) == { i \in DOMAIN v : BitAnd(v[i].addr, m) = f }

\* the entries of map under address a
EntriesAt(map, a) == { e \in map : e.addr = a }

\* C1: in a polling call, a frame read_packets returned is inserted into
\* can_map iff (address & mask) == filt for the mask and filt parsed in that
\* call (a frame that passes is in the map afterwards, unless a later frame of
\* the same address replaced it; a frame that does not pass leaves the entry
\* of its address as it was, unless the frame just written has that address);
\* and every row put on screen in that call passes the same test.
C1_FilterDecidesInsert ==
    [][PollStep =>
        LET v == ReadFrames(calls')
        IN  /\ \A i \in DOMAIN v :
                IF BitAnd(v[i].addr, mask') = filt'
                THEN \E j \in i..Len(v) :
                        v[j].addr = v[i].addr /\ v[j] \in can_map'
                ELSE (\A w \in WrittenOk(calls') : w.addr # v[i].addr)
                     => EntriesAt(can_map', v[i].addr) = EntriesAt(can_map, v[i].addr)
            /\ \A e \in shown' : BitAnd(e.addr, mask') = filt'
            /\ shown' = { e \in can_map' : BitAnd(e.addr, mask') = filt' }]_vars

\* C1 witness: a poll under a mask other than zero received a frame that
\* passes, now in the map and on screen, and a frame that does not, absent
C1_Witness ==
    /\ branch = "poll"
    /\ mask # U32(0, 0)
    /\ \E i, j \in DOMAIN ReadFrames(calls) :
        /\ i \in PassingAt(ReadFrames(calls), mask, filt)
        /\ j \notin PassingAt(ReadFrames(calls), mask, filt)
        /\ ReadFrames(calls)[i] \in shown
        /\ EntriesAt(can_map, ReadFrames(calls)[j].addr) = {}

\* C2 as claimed: the count stored at the front of act_map by a polling call
\* is the number of frames read_packets returned in it
C2_CountIsRaw ==
    branch = "poll" => act_map[1] = Len(ReadFrames(calls))

\* C2 as amended: the count stored at the front of act_map by a polling call
\* is the number of frames read_packets returned that pass the mask/filt
\* test, plus one when the call wrote a frame and write_packets returned Ok
C2_CountIsFilteredPlusSent ==
    branch = "poll" =>
        act_map[1] = Cardinality(PassingAt(ReadFrames(calls), mask, filt))
                     + Cardinality(WrittenOk(calls))

\* C2 witness: a poll whose filter rejected a received frame and whose count
\* is below the number of frames received
C2_Witness ==
    /\ branch = "poll"
    /\ PassingAt(ReadFrames(calls), mask, filt) # DOMAIN ReadFrames(calls)
    /\ act_map[1] < Len(ReadFrames(calls))

\* C3: can_map never holds two entries of one address; after a polling call
\* that received several passing frames of one address the entry of that
\* address is the last of them, and the address gained at most one entry
C3_OneEntryPerAddress ==
    [][/\ \A e1, e2 \in can_map' : e1.addr = e2.addr => e1 = e2
       /\ PollStep =>
            LET v == ReadFrames(calls')
                pass == PassingAt(v, mask', filt')
            IN  \A i \in pass :
                    /\ (\A j \in pass : j > i => v[j].addr # v[i].addr)
                        => EntriesAt(can_map', v[i].addr) = { v[i] }
                    /\ Cardinality(EntriesAt(can_map', v[i].addr))
                        <= Cardinality(EntriesAt(can_map, v[i].addr)) + 1]_vars

\* C3 witness: a poll received two passing frames of one address with
\* different payloads, and the map holds the later one alone
C3_Witness ==
    /\ branch = "poll"
    /\ \E i, j \in PassingAt(ReadFrames(calls), mask, filt) :
        /\ i < j
        /\ j = Len(ReadFrames(calls))
        /\ ReadFrames(calls)[i].addr = ReadFrames(calls)[j].addr
        /\ ReadFrames(calls)[i].data # ReadFrames(calls)[j].data
        /\ EntriesAt(can_map, ReadFrames(calls)[j].addr) = { ReadFrames(calls)[j] }

\* C4: events_draw stays within 0..100 and act_map keeps its 100 places; a
\* polling call adds one to events_draw until it is 100 and leaves it there,
\* stores the new count in place 0 and moves every earlier count one place
\* back, so that only the count of the last place is lost; no other call
\* changes either
C4_ActivityBuffer ==
    [][/\ events_draw' \in 0..ActCap
       /\ Len(act_map') = ActCap
       /\ PollStep =>
            /\ events_draw' = IF events_draw < ActCap THEN events_draw + 1 ELSE ActCap
            /\ \A i \in 2..ActCap : act_map'[i] = act_map[i - 1]
            /\ Plotted(act_map', events_draw')
                = SubSeq(<< act_map'[1] >> \o Plotted(act_map, events_draw),
                         1, events_draw')
       /\ ~PollStep => events_draw' = events_draw /\ act_map' = act_map]_vars

\* C4 witness: the buffer is full, its newest count is not zero, and the
\* largest count ever stored, to which max_y rose, is no longer in it
C4_Witness ==
    /\ branch = "poll"
    /\ events_draw = ActCap
    /\ act_map[1] > 0
    /\ max_y > MaxYInit
    /\ \A i \in 1..ActCap : act_map[i] < max_y

\* C5 as claimed: after a click on Disconnect the page has no channel, an
\* empty can_map and an empty activity buffer (events_draw 0, no count of the
\* ended session left), and a call made without a channel neither reads nor
\* writes packets
C5_DisconnectClearsSession ==
    /\ branch = "disconnect" =>
        /\ ~channel
        /\ can_map = {}
        /\ events_draw = 0
        /\ \A i \in 1..ActCap : act_map[i] = 0
    /\ branch \in { "idle", "connect", "connect_failed" } =>
        CallsOf(calls, "read_packets") \o CallsOf(calls, "write_packets") = <<>>

\* C6 as claimed: after a successful Connect the page has a channel, an empty
\* can_map, an empty activity buffer and last_tx_time reset
C6_ConnectResetsSession ==
    branch = "connect" =>
        /\ channel
        /\ can_map = {}
        /\ events_draw = 0
        /\ \A i \in 1..ActCap : act_map[i] = 0
        /\ last_tx_age = 0

\* C7: between two calls made with a channel max_y never decreases, and after
\* a polling call it is at least the count that call stored
C7_MaxYMonotone ==
    [][/\ (channel /\ channel') => max_y' >= max_y
       /\ PollStep => max_y' >= act_map'[1]]_vars

\* C7 witness: max_y rose to a count above its initial value, and a later poll
\* of the same connected period stored a smaller count
C7_Witness ==
    /\ branch = "poll"
    /\ max_y > MaxYInit
    /\ act_map[1] < max_y
    /\ act_map[2] = max_y

\* C8 as claimed: after a Connect that follows a Disconnect, max_y is the
\* value CanTracerPage::new gives it
C8_MaxYResets ==
    branch = "connect" => max_y = MaxYInit

C10_PayloadLength ==
    /\ Len(tx_can_data[2]) \in 1..MaxPayload
    /\ \A i \in DOMAIN calls :
        calls[i].op = "write_packets" =>
            /\ Len(calls[i].arg) = 1
            /\ Len(calls[i].arg[1].data) \in 1..MaxPayload

\* C10 witness: a frame was written while the data text parses to more than
\* 8 bytes
C10_Witness ==
    /\ CallsOf(calls, "write_packets") # <<>>
    /\ Len(BytesMaybe(tx_data_str)) > MaxPayload

\* the step is a make_ui call made with a channel
ConnectedStep == ticks' = ticks + 1 /\ branch' \in { "poll", "disconnect" }

\* the frames of v with address a
FramesAt(v, a) == { i \in DOMAIN v : v[i].addr = a }

\* C11 as claimed: after a click on the row of address A, the next polling
\* call, the operator leaving the filter fields and the reset button alone,
\* runs under mask 0xFFFFFFFF and filt A: of the frames read_packets returns
\* it keeps those of address A and no other, and the row of A stays on screen
C11_SelectRowExact ==
    [][(/\ input.click = "row"
        /\ PollStep
        /\ input'.key[1] \notin { "mask", "filt" }
        /\ input'.click # "reset") =>
            /\ mask' = U32Max
            /\ filt' = input.row
            /\ PassingAt(ReadFrames(calls'), mask', filt')
                = FramesAt(ReadFrames(calls'), input.row)
            /\ act_map'[1] = Cardinality(FramesAt(ReadFrames(calls'), input.row))
                             + Cardinality(WrittenOk(calls'))
            /\ shown' = EntriesAt(can_map', input.row)
            /\ shown' # {}]_vars

\* C12: a call in which "Reset CAN filter" is clicked ends with mask 0 and
\* filt 0 and both texts "0000", whatever the mask, the filt and the texts
\* were and whatever was typed in that call; every frame read_packets returned
\* in it passes the test and is counted, and every entry of can_map is shown
C12_ResetFilter ==
    input.click = "reset" =>
        /\ mask = U32(0, 0)
        /\ filt = U32(0, 0)
        /\ mask_str = T_0000
        /\ filt_str = T_0000
        /\ PassingAt(ReadFrames(calls), mask, filt) = DOMAIN ReadFrames(calls)
        /\ act_map[1] = Len(ReadFrames(calls)) + Cardinality(WrittenOk(calls))
        /\ shown = can_map

\* C12 witness: the button was clicked in a call in which the operator typed
\* a mask that does not parse
C12_Witness ==
    /\ input.click = "reset"
    /\ input.key[1] = "mask"
    /\ FromStrRadix(input.key[2], 16, U32Max) = ParseErr
    /\ mask = U32(0, 0)
    /\ mask_str = T_0000

\* the step is a click on Connect that open_can_channel answered with Err
FailedConnectStep == ticks' = ticks + 1 /\ branch' = "connect_failed"

\* C13: when open_can_channel fails, at create_can_channel, set_can_cfg or
\* open, the page keeps no channel, error_maybe holds a message, and can_map,
\* the activity buffer, the filter and the transmit fields are as they were;
\* the calls made stop at the one that failed; and Connect can be clicked
\* again and succeed
C13_FailedConnect ==
    [][FailedConnectStep =>
        /\ ~channel'
        /\ error_maybe' # "None"
        /\ UNCHANGED << can_map, act_map, events_draw, max_y, mask, mask_str,
                        filt, filt_str, sending_frame, tx_interval,
                        tx_interval_str, tx_id_str, tx_data_str, tx_can_data >>
        /\ \A i \in DOMAIN calls' : ~calls'[i].ok => i = Len(calls')
        /\ CallsOf(calls', "read_packets") \o CallsOf(calls', "write_packets") = <<>>
        /\ ticks' < MaxTicks => (ENABLED (Connect /\ channel'))']_vars

\* C13 witness: a Connect failed at open, after set_can_cfg was accepted, on a
\* page whose activity buffer and mask carry an earlier session
C13_Witness ==
    /\ branch = "connect_failed"
    /\ ~channel
    /\ error_maybe # "None"
    /\ Len(calls) = 2
    /\ events_draw > 0
    /\ mask # U32(0, 0)

\* the step is a polling call whose read_packets returned Err
FailedReadStep ==
    /\ PollStep
    /\ \E i \in DOMAIN calls' : calls'[i].op = "read_packets" /\ ~calls'[i].ok

\* C14: a polling call whose read_packets returns Err keeps the channel and
\* raises no connect error; it stores as count the frames it wrote (none
\* received), adds to can_map nothing but a frame it wrote, moves the activity
\* buffer on by one place; and the call that follows one whose read_packets
\* returned Err, when it is not a click on Disconnect, calls read_packets again
C14_ReadErrorAbsorbed ==
    [][/\ FailedReadStep =>
            /\ channel /\ channel'
            /\ error_maybe' = error_maybe
            /\ act_map'[1] = Cardinality(WrittenOk(calls'))
            /\ \A e \in can_map' : e \in can_map \/ e \in WrittenOk(calls')
            /\ \A e \in can_map :
                e \in can_map' \/ \E w \in WrittenOk(calls') : w.addr = e.addr
            /\ events_draw' = IF events_draw < ActCap THEN events_draw + 1 ELSE ActCap
            /\ \A i \in 2..ActCap : act_map'[i] = act_map[i - 1]
       /\ (/\ branch = "poll"
           /\ \E i \in DOMAIN calls : calls[i].op = "read_packets" /\ ~calls[i].ok
           /\ ticks' = ticks + 1
           /\ input'.click # "disconnect") =>
            /\ branch' = "poll"
            /\ Len(CallsOf(calls', "read_packets")) = 1]_vars

\* C14 witness: read_packets returned Err in the call after one that received
\* frames; the channel is kept, the entries are still in can_map, and the
\* buffer holds a zero in front of the earlier count
C14_Witness ==
    /\ branch = "poll"
    /\ channel
    /\ \E i \in DOMAIN calls : calls[i].op = "read_packets" /\ ~calls[i].ok
    /\ can_map # {}
    /\ events_draw = 2
    /\ act_map[1] = 0
    /\ act_map[2] > 0

\* the step is a call made with a channel in which write_packets returned ok
WroteStep(ok) ==
    /\ ConnectedStep
    /\ \E i \in DOMAIN calls' : calls'[i].op = "write_packets" /\ calls'[i].ok = ok

\* the frames v of read_packets that pass the test of the step's mask and filt
PassingFrames(v, m, f) == { v[i] : i \in PassingAt(v, m, f) }

\* what a polling step records when the frame it wrote is part of its frames
RecordsSent ==
    /\ act_map'[1] = Cardinality(PassingAt(ReadFrames(calls'), mask', filt')) + 1
    /\ \A w \in WrittenOk(calls') : EntriesAt(can_map', w.addr) # {}

\* what a polling step records when it is not
RecordsNoneSent ==
    /\ act_map'[1] = Cardinality(PassingAt(ReadFrames(calls'), mask', filt'))
    /\ \A e \in can_map' :
        e \in can_map \/ e \in PassingFrames(ReadFrames(calls'), mask', filt')

\* C15 as claimed: last_tx_time is set to now, and the frame recorded, only
\* when write_packets returns Ok; when it returns Err "Send frame" stays
\* ticked, no frame is recorded and last_tx_time is left as it was
C15_StampOnSuccessOnly ==
    [][/\ WroteStep(TRUE) =>
            /\ last_tx_age' = 0
            /\ PollStep => RecordsSent
       /\ WroteStep(FALSE) =>
            /\ sending_frame'
            /\ last_tx_age' = elapsed'
            /\ PollStep => RecordsNoneSent]_vars

\* C15 as amended: last_tx_time is set to now whenever write_packets is
\* called, whether it returns Ok or Err, and only then; the frame is recorded
\* only when it returns Ok; when it returns Err "Send frame" stays ticked and
\* no frame is recorded, and the call that follows reads an elapsed time that
\* started at the failed attempt, so that it writes again only if that time
\* is already greater than tx_interval
C15_StampOnEveryAttempt ==
    [][/\ WroteStep(TRUE) =>
            /\ last_tx_age' = 0
            /\ PollStep => RecordsSent
       /\ WroteStep(FALSE) =>
            /\ sending_frame'
            /\ last_tx_age' = 0
            /\ PollStep => RecordsNoneSent
       /\ (ConnectedStep /\ CallsOf(calls', "write_packets") = <<>>) =>
            last_tx_age' = elapsed'
       /\ (/\ branch = "poll"
           /\ \E i \in DOMAIN calls : calls[i].op = "write_packets" /\ ~calls[i].ok
           /\ ConnectedStep) =>
            /\ elapsed' \in TickMs
            /\ CallsOf(calls', "write_packets") # <<>>
                <=> (sending_frame' /\ MsGreater(elapsed', tx_interval'))]_vars

\* C15 witness: write_packets returned Err in a polling call; "Send frame" is
\* still ticked, nothing was counted, and last_tx_time is now
C15_Witness ==
    /\ branch = "poll"
    /\ \E i \in DOMAIN calls : calls[i].op = "write_packets" /\ ~calls[i].ok
    /\ sending_frame
    /\ act_map[1] = 0
    /\ elapsed > 0
    /\ last_tx_age = 0

DecDigits == { "0", "1", "2", "3", "4", "5", "6", "7", "8", "9" }
HexDigits == DecDigits \cup { "a", "b", "c", "d", "e", "f", "A", "B", "C", "D", "E", "F" }

\* s is a number written in the digits ds, with or without a "+" in front
\* (for a text short enough for its value to fit the field)
WellFormed(s, ds) ==
    LET t == IF s # <<>> /\ Head(s) = "+" THEN Tail(s) ELSE s
    IN  t # <<>> /\ \A i \in DOMAIN t : t[i] \in ds

\* s is a list of hexadecimal bytes with one space between them
DataWellFormed(s) ==
    \A i \in DOMAIN Split(s, " ") :
        /\ WellFormed(Split(s, " ")[i], HexDigits)
        /\ FromStrRadix(Split(s, " ")[i], 16, U32Max)[1] = 0
        /\ FromStrRadix(Split(s, " ")[i], 16, U32Max)[2] <= U8Max

\* the text of a filter field as the step parses it: what the operator typed
\* in the step, else what the field held, "0000" on a click on the reset button
FilterText(field, old) ==
    IF input'.click = "reset" THEN T_0000
    ELSE IF input'.key[1] = field THEN input'.key[2] ELSE old

\* C16: in a call made with a channel, a mask, filt, transmit id or transmit
\* interval text that is empty or is not a number leaves the value of its
\* field as it was, and so does a transmit data text that is empty or is not
\* a list of bytes; a value that changed is the value of a text that parses
\* (for the payload, to 1 to 8 bytes); the texts themselves are kept as
\* typed; no connect error is raised and a polling call keeps the channel
C16_MalformedTextKeepsValue ==
    [][ConnectedStep =>
        /\ ~WellFormed(FilterText("mask", mask_str), HexDigits) => mask' = mask
        /\ ~WellFormed(FilterText("filt", filt_str), HexDigits) => filt' = filt
        /\ ~WellFormed(tx_id_str', HexDigits) => tx_can_data'[1] = tx_can_data[1]
        /\ ~WellFormed(tx_interval_str', DecDigits) => tx_interval' = tx_interval
        /\ ~DataWellFormed(tx_data_str') => tx_can_data'[2] = tx_can_data[2]
        /\ mask' # mask =>
            /\ WellFormed(FilterText("mask", mask_str), HexDigits)
            /\ mask' = FromStrRadix(FilterText("mask", mask_str), 16, U32Max)
        /\ filt' # filt =>
            /\ WellFormed(FilterText("filt", filt_str), HexDigits)
            /\ filt' = FromStrRadix(FilterText("filt", filt_str), 16, U32Max)
        /\ tx_can_data'[1] # tx_can_data[1] =>
            /\ WellFormed(tx_id_str', HexDigits)
            /\ tx_can_data'[1] = FromStrRadix(tx_id_str', 16, U32Max)
        /\ tx_interval' # tx_interval =>
            /\ WellFormed(tx_interval_str', DecDigits)
            /\ tx_interval' = FromStrRadix(tx_interval_str', 10, U32Max)
        /\ tx_can_data'[2] # tx_can_data[2] =>
            /\ DataWellFormed(tx_data_str')
            /\ Len(Split(tx_data_str', " ")) \in 1..MaxPayload
            /\ Len(tx_can_data'[2]) = Len(Split(tx_data_str', " "))
        /\ input'.key[1] = "id" => tx_id_str' = input'.key[2]
        /\ input'.key[1] = "data" => tx_data_str' = input'.key[2]
        /\ input'.key[1] = "ival" => tx_interval_str' = input'.key[2]
        /\ input'.click \notin { "row", "reset" } =>
            /\ mask_str' = FilterText("mask", mask_str)
            /\ filt_str' = FilterText("filt", filt_str)
        /\ error_maybe' = error_maybe
        /\ PollStep => channel']_vars

\* C16 witness: the mask field holds a text that does not parse, and the mask
\* is still the one typed before it
C16_Witness ==
    /\ branch = "poll"
    /\ channel
    /\ ~WellFormed(mask_str, HexDigits)
    /\ mask_str # <<>>
    /\ mask # U32(0, 0)

\* C17: the frame a polling call wrote with Ok is counted and inserted into
\* can_map under its address whether or not it passes the test of mask and
\* filt: the count is one more than the received frames that pass, and the
\* entry of its address is the frame itself unless a received frame of that
\* address, which passes, replaced it
C17_SentFrameNotFiltered ==
    branch = "poll" =>
        \A w \in WrittenOk(calls) :
            /\ act_map[1] = Cardinality(PassingAt(ReadFrames(calls), mask, filt)) + 1
            /\ EntriesAt(can_map, w.addr) # {}
            /\ (\A i \in PassingAt(ReadFrames(calls), mask, filt) :
                    ReadFrames(calls)[i].addr # w.addr)
                => EntriesAt(can_map, w.addr) = { w }

\* C17 witness: the frame written does not pass the test, and is counted and
\* in can_map all the same, though not on screen
C17_Witness ==
    /\ branch = "poll"
    /\ \E w \in WrittenOk(calls) :
        /\ BitAnd(w.addr, mask) # filt
        /\ w \in can_map
        /\ w \notin shown
        /\ act_map[1] = 1

\* the rates of CAN_BAUD_RATES
SupportedBauds == { CAN_BAUD_RATES[i] : i \in DOMAIN CAN_BAUD_RATES }

\* C18: selected_baud is always one of CAN_BAUD_RATES, between 5 kbps and
\* 1 Mbps; every set_can_cfg call is made with selected_baud; and
\* selected_baud changes only in a call made without a channel that leaves
\* the page without one
C18_BaudSupported ==
    [][/\ selected_baud' \in SupportedBauds
       /\ selected_baud' >= 5000 /\ selected_baud' <= 1000000
       /\ \A i \in DOMAIN calls' :
            calls'[i].op = "set_can_cfg" =>
                calls'[i].arg = selected_baud' /\ calls'[i].arg \in SupportedBauds
       /\ selected_baud' # selected_baud =>
            ~channel /\ ~channel' /\ branch' = "idle"]_vars

\* C18 witness: a channel was configured and opened with a rate picked in the
\* combo box, other than the one the page starts with
C18_Witness ==
    /\ channel
    /\ branch = "connect"
    /\ \E i \in DOMAIN calls :
        /\ calls[i].op = "set_can_cfg"
        /\ calls[i].ok
        /\ calls[i].arg # BaudInit
        /\ calls[i].arg \in SupportedBauds

\* C19: a call made with a channel and no click on Disconnect calls
\* write_packets at most once, with one frame, and read_packets exactly once,
\* after the write if there is one, and makes no other call on the channel;
\* so read_packets is called whether the transmit step did not run, wrote, or
\* failed to write
C19_OneWriteThenOneRead ==
    branch = "poll" =>
        /\ Len(CallsOf(calls, "write_packets")) <= 1
        /\ \A i \in DOMAIN calls :
            calls[i].op = "write_packets" => Len(calls[i].arg) = 1
        /\ Len(CallsOf(calls, "read_packets")) = 1
        /\ Len(calls) = Len(CallsOf(calls, "write_packets")) + 1
        /\ \A i, j \in DOMAIN calls :
            (calls[i].op = "write_packets" /\ calls[j].op = "read_packets") => i < j

\* C19 witness: write_packets returned Err, and read_packets was called after
\* it in the same call and returned frames
C19_Witness ==
    /\ branch = "poll"
    /\ Len(calls) = 2
    /\ calls[1].op = "write_packets" /\ ~calls[1].ok
    /\ calls[2].op = "read_packets" /\ calls[2].ok
    /\ calls[2].arg # <<>>
    /\ act_map[1] > 0

\* the step is a call made with a channel and a click on Disconnect
DisconnectStep == ticks' = ticks + 1 /\ branch' = "disconnect"

\* C20: the call in which Disconnect is clicked runs the transmit step first,
\* so that a frame that is due is written and last_tx_time set, and then
\* drops the channel in place of the receive step: it makes no read_packets
\* call, leaves act_map, events_draw and max_y as they were, and ends with an
\* empty can_map, the frame it wrote not in it
C20_DisconnectAfterTransmit ==
    [][DisconnectStep =>
        /\ input'.click = "disconnect"
        /\ channel /\ ~channel'
        /\ CallsOf(calls', "read_packets") = <<>>
        /\ Len(calls') = Len(CallsOf(calls', "write_packets"))
        /\ Len(calls') <= 1
        /\ calls' # <<>> <=> (sending_frame' /\ MsGreater(elapsed', tx_interval'))
        /\ calls' # <<>> => last_tx_age' = 0
        /\ UNCHANGED << act_map, events_draw, max_y >>
        /\ can_map' = {}
        /\ \A w \in WrittenOk(calls') : w \notin can_map']_vars

\* C20 witness: the call in which Disconnect was clicked wrote a frame with
\* Ok, after polls that filled part of the activity buffer
C20_Witness ==
    /\ branch = "disconnect"
    /\ ~channel
    /\ WrittenOk(calls) # {}
    /\ CallsOf(calls, "read_packets") = <<>>
    /\ events_draw > 0
    /\ can_map = {}

====
